---- MODULE Spec2Model ----
(***************************************************************************)
(* Model of the ref-fvm call manager (fvm/src/call_manager.rs), the init   *)
(* actor's address resolver (fvm/src/init_actor.rs) and the SDK send       *)
(* wrapper (sdk/src/send.rs).                                              *)
(*                                                                         *)
(* One CallManager executes one top-level message.  Nested sends are       *)
(* native recursion: every running invocation is a frame of `stack`, and   *)
(* `handles` holds the Option tag of the top-level CallManager handle      *)
(* followed by the tag of the handle owned by each frame's kernel.         *)
(***************************************************************************)
EXTENDS Integers, Sequences, FiniteSets, TLC

\* ---------------------------------------------------------------- bounds
MaxCalls == 2
MaxGas == 4
MaxCharge == 2
MaxValue == 1

\* ------------------------------------------------------ program constants
SYSTEM_ACTOR_ID == 0
FIRST_NON_SINGLETON_ADDR == 100
METHOD_CONSTRUCTOR == 1
\* PriceList::on_create_actor(): the fixed gas cost of creating an actor.
on_create_actor == 2

\* Protocol numbers of fvm_shared::address::Protocol.
ProtoID == 0
ProtoSecp256k1 == 1
ProtoActor == 2
ProtoBLS == 3

None == -1

\* ---------------------------------------------------------------- addresses
Address(p, x) == [protocol |-> p, payload |-> x]
new_id(id) == Address(ProtoID, id)
\* The BLS key whose bytes are all zero is modelled as key 0.
is_bls_zero_address(addr) == addr.protocol = ProtoBLS /\ addr.payload = 0
\* Address::to_bytes: the protocol byte followed by the payload.
to_bytes(addr) == <<addr.protocol, addr.payload>>

\* ------------------------------------------------- init actor (resolver)
\* A resolve_address that consults the map before looking at the payload.
resolve_address_map_first(map, addr) ==
    IF to_bytes(addr) \in DOMAIN map THEN map[to_bytes(addr)]
    ELSE IF addr.protocol = ProtoID THEN addr.payload
    ELSE None

\* State::resolve_address
resolve_address(map, addr) ==
    IF addr.protocol = ProtoID THEN addr.payload
    ELSE IF to_bytes(addr) \in DOMAIN map THEN map[to_bytes(addr)]
    ELSE None

\* map.set(addr.to_bytes(), id) on the HAMT.
map_set(map, key, id) ==
    [k \in DOMAIN map \cup {key} |-> IF k = key THEN id ELSE map[k]]

\* Variants of map_address_to_new_id: one reads next_id after incrementing
\* it, one forgets to increment it.
map_address_to_new_id_late(map, nid, addr) ==
    [id |-> nid + 1, next_id |-> nid + 1, address_map |-> map_set(map, to_bytes(addr), nid)]

map_address_to_new_id_noinc(map, nid, addr) ==
    [id |-> nid, next_id |-> nid, address_map |-> map_set(map, to_bytes(addr), nid)]

\* State::new: an empty map and the first non-reserved id.
State_new == [address_map |-> [k \in {} |-> 0], next_id |-> FIRST_NON_SINGLETON_ADDR]

\* State::map_address_to_new_id: the new state and the returned id.
map_address_to_new_id(map, nid, addr) ==
    [id |-> nid, next_id |-> nid + 1, address_map |-> map_set(map, to_bytes(addr), nid)]

\* ------------------------------------------------------------ state tree
\* StateTree::lookup_id resolves through the init actor's state.
lookup_id(map, addr) == resolve_address(map, addr)

\* account_actor::ZERO_STATE
ZERO_STATE == [code |-> "account", balance |-> 0]

\* StateTree::set_actor
set_actor(acts, id, st) ==
    [a \in DOMAIN acts \cup {id} |-> IF a = id THEN st ELSE acts[a]]

\* Machine::create_actor: allocate an ID through the resolver and store the
\* record under it.
create_actor(acts, map, nid, addr, act) ==
    LET m == map_address_to_new_id(map, nid, addr)
    IN  [id |-> m.id, next_id |-> m.next_id, address_map |-> m.address_map,
         actors |-> set_actor(acts, m.id, act)]

\* Machine::load_module: the code of a "broken" actor does not compile.
load_module_ok(code) == code # "broken"

\* ------------------------------------------------------------ gas tracker
\* GasTracker::charge_gas
GasTracker_charge_gas(limit, used, c) ==
    IF used + c > limit THEN [res |-> "OutOfGas", gas_used |-> used]
    ELSE [res |-> "Ok", gas_used |-> used + c]

\* GasTracker::gas_available
GasTracker_gas_available(limit, used) == limit - used

\* A charge_gas that drops the tracker's error.
charge_gas_swallow(limit, used, c) ==
    [GasTracker_charge_gas(limit, used, c) EXCEPT !.res = "Ok"]

\* CallManager::charge_gas
charge_gas(limit, used, c) == GasTracker_charge_gas(limit, used, c)

\* CallManager::gas_available
gas_available(limit, used) == GasTracker_gas_available(limit, used)

Max(a, b) == IF a >= b THEN a ELSE b

\* ------------------------------------------------------ ownership hand-off
\* CallManager::map_mut on entry: the handle the call was made on is left
\* as CallManager(None) and the value moves into the new kernel.
map_mut(h) == Append([h EXCEPT ![Len(h)] = "None"], "Live")

take_lost(h) == SubSeq(h, 1, Len(h) - 1)

\* kernel.take() and the write-back of map_mut: the kernel's handle is
\* consumed and the call manager is put back into the caller's handle.
take(h) == [SubSeq(h, 1, Len(h) - 1) EXCEPT ![Len(h) - 1] = "Live"]

unwind_keep(h) == <<"Live">>

\* Unwinding after a panic inside map_mut's closure: replace_with writes
\* CallManager(None) into every enclosing handle, the kernel (and with it
\* the Machine) is dropped.
unwind(h) == <<"None">>

\* ---------------------------------------------------------------- state
VARIABLES
    handles,      \* Seq of "Live"/"None": top-level handle, then one per frame
    stack,        \* Seq of kernels (frames) of the running invocations
    from,         \* InnerCallManager.from
    gas_limit,    \* GasTracker.gas_limit
    gas_used,     \* GasTracker.gas_used
    actors,       \* state tree: ActorID -> [code, balance]
    address_map,  \* init actor State.address_map: bytes -> ActorID
    next_id,      \* init actor State.next_id
    status,       \* "running", "faulted" (panicked) or "finished"
    ret,          \* what the last step returned to its caller
    origin,       \* the `from` CallManager::new was given
    sumOk,        \* sum of the gas charges that returned Ok
    ncalls,       \* number of send calls made so far
    allocated,    \* the calls of map_address_to_new_id so far: [addr, id]
    sdk           \* the SDK's send: its argument and what it did

vars == <<handles, stack, from, gas_limit, gas_used, actors, address_map,
          next_id, status, ret, origin, sumOk, ncalls, allocated, sdk>>

\* ---------------------------------------------------------------- inputs
Unmapped1 == Address(ProtoSecp256k1, 2)
SendTargets ==
    { new_id(99), new_id(101), new_id(102),
      Address(ProtoSecp256k1, 1), Unmapped1,
      Address(ProtoBLS, 0), Address(ProtoBLS, 1), Address(ProtoActor, 3) }
Methods == {2}
Values == 0..MaxValue
Charges == 1..MaxCharge
GasLimits == {1, MaxGas}

NoCont == [pending |-> FALSE, method |-> 0, value |-> 0]

\* A kernel bound to the recipient instead of the sender.
DefaultKernel_swapped(f, to, method, value, expl, prev, kont, created, addr) ==
    [from |-> to, to |-> to, method |-> method, value |-> value,
     explicit |-> expl, prev_from |-> prev, cont |-> kont, created |-> created,
     addr |-> addr]

\* DefaultKernel::new(cm, from, to, method, value), with the bookkeeping of
\* the Rust frames below it: whether send_explicit is on the native stack
\* (and its prev_from) and what `send` still has to do after it returns.
DefaultKernel(f, to, method, value, expl, prev, kont, created, addr) ==
    [from |-> f, to |-> to, method |-> method, value |-> value,
     explicit |-> expl, prev_from |-> prev, cont |-> kont, created |-> created,
     addr |-> addr]

Ret(op, res, addr, id, value, expl) ==
    [op |-> op, res |-> res, addr |-> addr, id |-> id, value |-> value, expl |-> expl]

NoAddr == Address(None, None)

\* The SDK's send has not been called.
SdkIdle == [pc |-> "idle", value |-> 0, res |-> "none", value_hi |-> 0, value_lo |-> 0, syscalls |-> <<>>]

Init ==
    /\ handles = <<"Live">>
    /\ stack = <<>>
    /\ origin = 100
    /\ from = origin
    /\ gas_limit \in GasLimits
    /\ gas_used = 0
    /\ actors = (0 :> [code |-> "system", balance |-> 0]) @@
                (1 :> [code |-> "init", balance |-> 0]) @@
                (100 :> [code |-> "account", balance |-> 0]) @@
                (101 :> [code |-> "actor", balance |-> 0]) @@
                (102 :> [code |-> "broken", balance |-> 0])
    /\ address_map = (<<ProtoSecp256k1, 1>> :> 100) @@ (<<ProtoActor, 1>> :> 101) @@
                     (<<ProtoActor, 2>> :> 102)
    /\ next_id = 103
    /\ status = "running"
    /\ ret = Ret("none", "Ok", NoAddr, None, 0, "none")
    /\ sumOk = 0
    /\ ncalls = 0
    /\ allocated = << [addr |-> Address(ProtoSecp256k1, 1), id |-> 100],
                      [addr |-> Address(ProtoActor, 1), id |-> 101],
                      [addr |-> Address(ProtoActor, 2), id |-> 102] >>
    /\ sdk = SdkIdle

\* ------------------------------------------------------------ operations
\* Variants of send_resolved with a slip in the balance update.
send_resolved_nocredit(acts, to, value, block_fail) ==
    IF to \notin DOMAIN acts
    THEN [res |-> "ActorNotFound", actors |-> acts]
    ELSE IF ~load_module_ok(acts[to].code)
    THEN [res |-> "ModuleLoadError", actors |-> acts]
    ELSE IF block_fail
    THEN [res |-> "BlockCreateError", actors |-> acts]
    ELSE [res |-> "Invoke", actors |-> acts]

send_resolved_upsert(acts, to, value, block_fail) ==
    LET old == IF to \in DOMAIN acts THEN acts[to] ELSE ZERO_STATE
        acts2 == IF value # 0
                 THEN set_actor(acts, to, [old EXCEPT !.balance = @ + value])
                 ELSE acts
    IN  IF to \notin DOMAIN acts
        THEN [res |-> "ActorNotFound", actors |-> acts2]
        ELSE IF ~load_module_ok(acts[to].code)
        THEN [res |-> "ModuleLoadError", actors |-> acts]
        ELSE IF block_fail
        THEN [res |-> "BlockCreateError", actors |-> acts2]
        ELSE [res |-> "Invoke", actors |-> acts2]

send_resolved_eager(acts, to, value, block_fail) ==
    IF to \notin DOMAIN acts
    THEN [res |-> "ActorNotFound", actors |-> acts]
    ELSE LET st == [acts[to] EXCEPT !.balance = @ + value]
             acts2 == IF value # 0 THEN set_actor(acts, to, st) ELSE acts
         IN  IF ~load_module_ok(acts[to].code)
             THEN [res |-> "ModuleLoadError", actors |-> acts2]
             ELSE IF block_fail
             THEN [res |-> "BlockCreateError", actors |-> acts2]
             ELSE [res |-> "Invoke", actors |-> acts2]

send_resolved_double(acts, to, value, block_fail) ==
    IF to \notin DOMAIN acts
    THEN [res |-> "ActorNotFound", actors |-> acts]
    ELSE IF ~load_module_ok(acts[to].code)
    THEN [res |-> "ModuleLoadError", actors |-> acts]
    ELSE LET st == [acts[to] EXCEPT !.balance = @ + value + value]
             acts2 == IF value # 0 THEN set_actor(acts, to, st) ELSE acts
         IN  IF block_fail
             THEN [res |-> "BlockCreateError", actors |-> acts2]
             ELSE [res |-> "Invoke", actors |-> acts2]

\* CallManager::send_resolved up to the construction of the kernel and the
\* creation of the parameter block: "Invoke" when the module is about to be
\* instantiated, otherwise the error the call returns.  block_fail is the
\* outcome of kernel.block_create.
send_resolved(acts, to, value, block_fail) ==
    IF to \notin DOMAIN acts
    THEN [res |-> "ActorNotFound", actors |-> acts]
    ELSE IF ~load_module_ok(acts[to].code)
    THEN [res |-> "ModuleLoadError", actors |-> acts]
    ELSE LET st == [acts[to] EXCEPT !.balance = @ + value]
             acts2 == IF value # 0 THEN set_actor(acts, to, st) ELSE acts
         IN  IF block_fail
             THEN [res |-> "BlockCreateError", actors |-> acts2]
             ELSE [res |-> "Invoke", actors |-> acts2]

\* Variants of create_account_actor: without the zero-address check, and
\* giving the creation charge back when it rejects the address.
create_account_actor_nozero(limit, used, acts, map, nid, addr) ==
    LET g == charge_gas(limit, used, on_create_actor)
        same == [gas_used |-> g.gas_used, actors |-> acts, address_map |-> map,
                 next_id |-> nid, id |-> None]
    IN  IF g.res # "Ok" THEN [res |-> g.res] @@ same
        ELSE LET c == create_actor(acts, map, nid, addr, ZERO_STATE)
             IN  [res |-> "Construct", gas_used |-> g.gas_used, actors |-> c.actors,
                  address_map |-> c.address_map, next_id |-> c.next_id, id |-> c.id]

create_account_actor_refund(limit, used, acts, map, nid, addr) ==
    LET g == charge_gas(limit, used, on_create_actor)
        same == [gas_used |-> g.gas_used, actors |-> acts, address_map |-> map,
                 next_id |-> nid, id |-> None]
    IN  IF g.res # "Ok" THEN [res |-> g.res] @@ same
        ELSE IF is_bls_zero_address(addr)
        THEN [[res |-> "IllegalArgument"] @@ same EXCEPT !.gas_used = used]
        ELSE LET c == create_actor(acts, map, nid, addr, ZERO_STATE)
             IN  [res |-> "Construct", gas_used |-> g.gas_used, actors |-> c.actors,
                  address_map |-> c.address_map, next_id |-> c.next_id, id |-> c.id]

\* CallManager::create_account_actor up to its call of send_explicit:
\* "Construct" when the constructor is about to be sent.
create_account_actor(limit, used, acts, map, nid, addr) ==
    LET g == charge_gas(limit, used, on_create_actor)
        same == [gas_used |-> g.gas_used, actors |-> acts, address_map |-> map,
                 next_id |-> nid, id |-> None]
    IN  IF g.res # "Ok" THEN [res |-> g.res] @@ same
        ELSE IF is_bls_zero_address(addr) THEN [res |-> "IllegalArgument"] @@ same
        ELSE LET c == create_actor(acts, map, nid, addr, ZERO_STATE)
             IN  [res |-> "Construct", gas_used |-> g.gas_used, actors |-> c.actors,
                  address_map |-> c.address_map, next_id |-> c.next_id, id |-> c.id]

\* send: the protocols for which an unresolved recipient is auto-created.
is_key_style_wide(addr) == addr.protocol \in {ProtoBLS, ProtoSecp256k1, ProtoActor}
is_key_style(addr) == addr.protocol \in {ProtoBLS, ProtoSecp256k1}

\* send_explicit: `self.from = prev_from` after send_resolved returned.
restore_from_skip(expl, prev, f) == f
restore_from(expl, prev, f) == IF expl THEN prev ELSE f

\* The call of send_resolved made on the call manager whose handles are h
\* and whose effective sender is f, from send (expl = FALSE) or from
\* send_explicit (expl = TRUE, prev = the saved prev_from): either a kernel
\* starts running, or the call returns an error and send_explicit restores
\* the sender.
SendResolvedFrom(h, stk, f, acts, to, method, value, block_fail, expl, prev, kont, created, addr, er) ==
    LET r == send_resolved(acts, to, value, block_fail)
    IN  /\ actors' = r.actors
        /\ IF r.res = "Invoke"
           THEN /\ handles' = map_mut(h)
                /\ stack' = Append(stk, DefaultKernel(f, to, method, value, expl, prev,
                                                      kont, created, addr))
                /\ from' = f
                /\ ret' = Ret("invoke", "Pending", addr, to, value, er)
           ELSE /\ handles' = IF r.res = "BlockCreateError" THEN take(map_mut(h)) ELSE h
                /\ stack' = stk
                /\ from' = restore_from(expl, prev, f)
                /\ ret' = Ret("send", r.res, addr, to, value, IF expl THEN "Err" ELSE er)

\* Deref/DerefMut for CallManager: whether `self.0` is Some; the expect
\* panics otherwise.
deref_ok(h) == h[Len(h)] = "Live"

Running == status = "running" /\ deref_ok(handles)

\* The code of the innermost running invocation may call send: account
\* actors never do.
MaySend == IF stack = <<>> THEN TRUE ELSE actors[stack[Len(stack)].to].code # "account"

\* CallManager::send, called by the driver or by the running actor.
send(addr, method, value, block_fail) ==
    /\ Running
    /\ MaySend
    /\ ncalls < MaxCalls
    /\ ncalls' = ncalls + 1
    /\ UNCHANGED <<gas_limit, status, origin, sdk>>
    /\ LET id == lookup_id(address_map, addr)
       IN  IF id # None
           THEN /\ SendResolvedFrom(handles, stack, from, actors, id, method, value,
                                    block_fail, FALSE, from, NoCont, FALSE, addr, "none")
                /\ UNCHANGED <<gas_used, sumOk, address_map, next_id, allocated>>
           ELSE IF is_key_style(addr)
           THEN LET c == create_account_actor(gas_limit, gas_used, actors, address_map,
                                              next_id, addr)
                IN  /\ gas_used' = c.gas_used
                    /\ sumOk' = sumOk + (c.gas_used - gas_used)
                    /\ address_map' = c.address_map
                    /\ next_id' = c.next_id
                    /\ allocated' = IF c.res = "Construct" THEN Append(allocated, [addr |-> addr, id |-> c.id])
                                    ELSE allocated
                    /\ IF c.res = "Construct"
                       THEN \* send_explicit(SYSTEM_ACTOR_ID, id, METHOD_CONSTRUCTOR, params, 0)
                            SendResolvedFrom(handles, stack, SYSTEM_ACTOR_ID, c.actors, c.id,
                                             METHOD_CONSTRUCTOR, 0, block_fail, TRUE, from,
                                             [pending |-> TRUE, method |-> method,
                                              value |-> value],
                                             TRUE, addr, "none")
                       ELSE /\ actors' = c.actors
                            /\ ret' = Ret("send", c.res, addr, None, value, "none")
                            /\ UNCHANGED <<handles, stack, from>>
           ELSE /\ ret' = Ret("send", "ActorNotFound", addr, None, value, "none")
                /\ UNCHANGED <<handles, stack, from, actors, gas_used, sumOk,
                               address_map, next_id, allocated>>

\* The innermost invocation completes: the result block is read, the kernel
\* hands the call manager back (kernel.take()), send_explicit restores the
\* sender, and a send that auto-created its recipient goes on to
\* send_resolved with the original method and value.
Return(block_fail) ==
    /\ Running
    /\ stack # <<>>
    /\ LET k == stack[Len(stack)]
           h == take(handles)
           stk == SubSeq(stack, 1, Len(stack) - 1)
           f == restore_from(k.explicit, k.prev_from, from)
       IN  IF k.cont.pending
           THEN SendResolvedFrom(h, stk, f, actors, k.to, k.cont.method, k.cont.value,
                                 block_fail, FALSE, f, NoCont, TRUE, k.addr, "Ok")
           ELSE /\ ~block_fail
                /\ handles' = h
                /\ stack' = stk
                /\ from' = f
                /\ actors' = actors
                /\ ret' = Ret("send", "Ok", k.addr, k.to, k.value,
                              IF k.explicit THEN "Ok" ELSE "none")
    /\ UNCHANGED <<gas_limit, gas_used, address_map, next_id, status, origin, sumOk,
                   ncalls, allocated, sdk>>

\* instantiate, get_typed_func, invoke.call, block_stat or block_read fails:
\* the unwrap panics and the native stack unwinds.
Fault ==
    /\ Running
    /\ stack # <<>>
    /\ status' = "faulted"
    /\ handles' = unwind(handles)
    /\ stack' = <<>>
    /\ ret' = Ret("panic", "Panic", NoAddr, None, 0, "none")
    /\ UNCHANGED <<from, gas_limit, gas_used, actors, address_map, next_id, origin,
                   sumOk, ncalls, allocated, sdk>>

\* CallManager::charge_gas, called by the driver or by the running kernel.
ChargeGas(c) ==
    /\ Running
    /\ LET g == charge_gas(gas_limit, gas_used, c)
       IN  /\ gas_used' = g.gas_used
           /\ sumOk' = IF g.res = "Ok" THEN sumOk + c ELSE sumOk
           /\ ret' = Ret("charge_gas", g.res, NoAddr, None, c, "none")
    /\ UNCHANGED <<handles, stack, from, gas_limit, actors, address_map, next_id,
                   status, origin, ncalls, allocated, sdk>>

\* CallManager::finish: the gas used and whether the machine comes out.
finish(h, used) ==
    [gas_used |-> Max(used, 0), machine |-> h[1] = "Live", handles |-> <<"None">>]

Finish ==
    /\ Running
    /\ stack = <<>>
    /\ LET r == finish(handles, gas_used)
       IN  /\ handles' = r.handles
           /\ ret' = Ret("finish", IF r.machine THEN "Ok" ELSE "Panic", NoAddr, None,
                         r.gas_used, "none")
           /\ status' = IF r.machine THEN "finished" ELSE "faulted"
    /\ UNCHANGED <<stack, from, gas_limit, gas_used, actors, address_map, next_id,
                   origin, sumOk, ncalls, allocated, sdk>>

\* The operations of a call manager, as the outcome "the call panicked".
CallManagerOps ==
    {"charge_gas panicked", "gas_used panicked", "gas_available panicked",
     "send panicked", "finish panicked"}

\* An operation on a call manager whose handle is CallManager(None): the
\* deref's expect("call manager is poisoned") panics.
PoisonedUse(op) ==
    /\ status # "finished"
    /\ ~deref_ok(handles)
    /\ status' = "faulted"
    /\ ret' = Ret(op, "Panic", NoAddr, None, 0, "none")
    /\ UNCHANGED <<handles, stack, from, gas_limit, gas_used, actors, address_map,
                   next_id, origin, sumOk, ncalls, allocated, sdk>>

Next ==
    \/ \E op \in CallManagerOps : PoisonedUse(op)
    \/ \E addr \in SendTargets, m \in Methods, v \in Values, bf \in BOOLEAN :
           send(addr, m, v, bf)
    \/ \E bf \in BOOLEAN : Return(bf)
    \/ Fault
    \/ \E c \in Charges : ChargeGas(c)
    \/ Finish

Spec == Init /\ [][Next]_vars

TypeOK ==
    /\ status \in {"running", "faulted", "finished"}
    /\ Len(handles) = Len(stack) + 1
    /\ gas_used \in 0..MaxGas

\* ------------------------------------------------------------ properties
LiveHandles == {i \in DOMAIN handles : handles[i] = "Live"}

\* A step in which send was called on the call manager.
SendStep == ncalls' = ncalls + 1
\* The address that send was called with in a SendStep.
SentTo == ret'.addr
\* The sender the call manager had when the innermost frame's caller took
\* control: the sender bound into the enclosing kernel, or the one given
\* to CallManager::new.
\* (stk is the stack below the frame in question)
CallerFrom(stk) == IF stk = <<>> THEN origin ELSE stk[Len(stk)].from
NoActorCreated ==
    /\ DOMAIN actors' = DOMAIN actors
    /\ next_id' = next_id
    /\ address_map' = address_map

\* C1: while the call manager has not been consumed by finish, the
\* Execution Context has exactly one live owner: the innermost handle
\* (the top-level handle when no frame runs, else the innermost kernel's)
\* is Live and every enclosing handle is None.
C1_ExactlyOneOwner ==
    status # "finished" =>
        /\ Len(handles) = Len(stack) + 1
        /\ LiveHandles = {Len(handles)}

\* C2: whenever a send returns a Result (Ok or Err, the block_create
\* failure included), the handle it was called on is Live again, all
\* handles enclosing it are still None, and at top level finish can take
\* the machine out.
C2_ReturnLeavesLive ==
    [][ret'.op = "send" =>
          /\ status' = "running"
          /\ Len(handles') = Len(stack') + 1
          /\ handles'[Len(handles')] = "Live"
          /\ \A i \in 1..(Len(handles') - 1) : handles'[i] = "None"
          /\ (stack' = <<>> => finish(handles', gas_used').machine)]_vars

\* A nested send returned Ok to the frame that made it.
C2_Witness ==
    /\ ret.op = "send"
    /\ ret.res = "Ok"
    /\ handles = <<"None", "Live">>

CtorStarts ==
    /\ SendStep
    /\ ret'.op = "invoke"
    /\ stack'[Len(stack')].explicit
OriginalStarts ==
    /\ ~SendStep
    /\ ret'.op = "invoke"
    /\ stack # <<>>
OriginalReturns ==
    /\ ~SendStep
    /\ ret'.op = "send"
    /\ ret'.res = "Ok"
    /\ stack # <<>>
    /\ stack[Len(stack)].created
    /\ ~stack[Len(stack)].explicit

\* C4: a send to an unresolved key address creates exactly one account
\* actor record and invokes its constructor with sender = system actor
\* and value = 0; the original method is invoked on it only as the
\* continuation of that constructor's return, with the original sender as
\* effective sender and the value credited; when the send returns Ok the
\* new actor's balance is the value sent and its code is the account code.
C4_AutoCreateEndToEnd ==
    [][/\ CtorStarts =>
            LET k == stack'[Len(stack')]
            IN  /\ next_id \notin DOMAIN actors
                /\ DOMAIN actors' = DOMAIN actors \cup {next_id}
                /\ actors'[next_id] = ZERO_STATE
                /\ k.to = next_id
                /\ k.from = SYSTEM_ACTOR_ID
                /\ k.value = 0
                /\ k.method = METHOD_CONSTRUCTOR
       /\ OriginalStarts =>
            LET c == stack[Len(stack)]
                k == stack'[Len(stack')]
            IN  /\ c.explicit /\ c.method = METHOD_CONSTRUCTOR
                /\ c.from = SYSTEM_ACTOR_ID /\ c.value = 0
                /\ c.to = k.to
                /\ k.from = CallerFrom(SubSeq(stack, 1, Len(stack) - 1))
                /\ from' = k.from
                /\ DOMAIN actors' = DOMAIN actors
                /\ actors'[k.to] = [code |-> "account", balance |-> k.value]
       /\ OriginalReturns =>
            LET k == stack[Len(stack)]
            IN  /\ actors'[k.to] = [code |-> "account", balance |-> k.value]
                /\ DOMAIN actors' = DOMAIN actors
                /\ from' = k.from
      ]_vars

\* A send of value 1 to the unresolved Secp256k1 address returned Ok.
C4_Witness ==
    /\ ret.op = "send"
    /\ ret.res = "Ok"
    /\ ret.addr = Unmapped1
    /\ ret.value = 1
    /\ ret.id \in DOMAIN actors
    /\ actors[ret.id] = [code |-> "account", balance |-> 1]

BlsZero == Address(ProtoBLS, 0)

\* C5 as stated: a send to the unresolved BLS zero address fails with
\* IllegalArgument for every gas limit, before any actor record is created.
C5_ZeroAlwaysIllegalArgument ==
    [][SendStep /\ SentTo = BlsZero =>
          /\ ret'.op = "send"
          /\ ret'.res = "IllegalArgument"
          /\ NoActorCreated]_vars

\* C5 amended: a send to the unresolved BLS zero address fails before any
\* actor record is created, no ID is allocated and no constructor is
\* invoked; it fails with IllegalArgument when the creation charge fits in
\* the remaining gas and with OutOfGas when it does not.
C5_ZeroRejected ==
    [][SendStep /\ SentTo = BlsZero =>
          /\ ret'.op = "send"
          /\ ret'.res = (IF gas_used + on_create_actor <= gas_limit
                         THEN "IllegalArgument" ELSE "OutOfGas")
          /\ NoActorCreated
          /\ UNCHANGED <<actors, stack, handles, from>>]_vars

C5_Witness ==
    /\ ret.op = "send"
    /\ ret.res = "IllegalArgument"
    /\ ret.addr = BlsZero
    /\ gas_used >= on_create_actor

SendResolvedCalled ==
    \/ SendStep /\ ret'.id # None
    \/ ~SendStep /\ stack # <<>> /\ ret'.op \in {"send", "invoke"}
          /\ stack[Len(stack)].cont.pending

\* C6: a send to an ID address with no actor record fails with
\* ActorNotFound and changes nothing: actor records and balances, resolver
\* state, gas_used, the effective sender and the handles are as before.
C6_MissingIdNoMutation ==
    [][SendStep /\ SentTo.protocol = ProtoID /\ SentTo.payload \notin DOMAIN actors =>
          /\ ret'.op = "send"
          /\ ret'.res = "ActorNotFound"
          /\ UNCHANGED <<actors, address_map, next_id, gas_used, gas_limit, from,
                         handles, stack, status>>]_vars

C6_Witness ==
    /\ ret.op = "send"
    /\ ret.res = "ActorNotFound"
    /\ ret.addr = new_id(99)
    /\ ret.value = 1
    /\ 99 \notin DOMAIN actors

\* C7 as stated: once send_resolved has found the recipient, the value is
\* credited whatever later step of the same send_resolved fails, module
\* loading included.
C7_CreditOnceFound ==
    [][SendResolvedCalled /\ ret'.id \in DOMAIN actors =>
          actors'[ret'.id].balance = actors[ret'.id].balance + ret'.value]_vars

\* C7 amended: once send_resolved has found the recipient and loaded its
\* code module, the value is credited before the kernel is constructed and
\* stays credited when the parameter block cannot be created or the
\* invocation later panics; when loading the module fails the call returns
\* that error and no credit is applied.  No step ever lowers a balance.
C7_CreditAfterModuleLoad ==
    [][/\ SendResolvedCalled /\ ret'.id \in DOMAIN actors =>
            IF load_module_ok(actors[ret'.id].code)
            THEN /\ actors'[ret'.id].balance = actors[ret'.id].balance + ret'.value
                 /\ ret'.res \in {"Pending", "BlockCreateError"}
            ELSE /\ actors' = actors
                 /\ ret'.op = "send"
                 /\ ret'.res = "ModuleLoadError"
       /\ \A a \in DOMAIN actors :
            a \in DOMAIN actors' /\ actors'[a].balance >= actors[a].balance
      ]_vars

\* The parameter block could not be created, the credit was kept.
C7_Witness ==
    /\ ret.op = "send"
    /\ ret.res = "BlockCreateError"
    /\ ret.value = 1
    /\ ret.id = 101
    /\ actors[101].balance >= 1

\* C8: send_explicit binds the callee's kernel to the given sender, and
\* when it returns, with Ok or Err, the effective sender is the one its
\* caller had: the sender bound into the enclosing kernel, or the one given
\* to CallManager::new at top level.
C8_ExplicitRestoresFrom ==
    [][/\ CtorStarts => stack'[Len(stack')].from = SYSTEM_ACTOR_ID /\ from' = SYSTEM_ACTOR_ID
       /\ ret'.expl = "Err" => from' = from /\ from' = CallerFrom(stack')
       /\ ret'.expl = "Ok" =>
            /\ from' = CallerFrom(SubSeq(stack, 1, Len(stack) - 1))
            /\ from' = stack[Len(stack)].prev_from
      ]_vars

\* The constructor sent from a nested frame returned.
C8_Witness ==
    /\ ret.expl = "Ok"
    /\ Len(stack) = 2
    /\ stack[2].created
    /\ from = origin
    /\ from # SYSTEM_ACTOR_ID

C10_NoRefund ==
    [][/\ gas_used' >= gas_used
       /\ SendStep /\ ret'.op = "send" /\ (ret'.res = "IllegalArgument" \/ ret'.expl = "Err")
            => gas_used' = gas_used + on_create_actor
       /\ ret'.op = "finish" =>
            /\ ret'.value = (IF gas_used >= 0 THEN gas_used ELSE 0)
            /\ ret'.res = "Ok"
            /\ status' = "finished"
      ]_vars

\* finish returned the gas of a failed auto-creation.
C10_Witness ==
    /\ status = "finished"
    /\ ret.op = "finish"
    /\ ret.value = on_create_actor
    /\ DOMAIN actors = {0, 1, 100, 101, 102}
    /\ ncalls = 1

\* ------------------------------------------------------- resolver on its own
MaxAllocs == 3

\* ID addresses below, inside and above the allocated range, and non-ID
\* addresses of three protocols.
ResolverAddrs ==
    { new_id(5), new_id(FIRST_NON_SINGLETON_ADDR), new_id(200),
      Address(ProtoSecp256k1, 1), Address(ProtoSecp256k1, 2),
      Address(ProtoBLS, 1), Address(ProtoActor, 1) }

ResolverInit ==
    /\ address_map = State_new.address_map
    /\ next_id = State_new.next_id
    /\ allocated = <<>>
    /\ ret = Ret("none", "Ok", NoAddr, None, 0, "none")
    /\ handles = <<"Live">>
    /\ stack = <<>>
    /\ origin = 100
    /\ from = origin
    /\ gas_limit = MaxGas
    /\ gas_used = 0
    /\ actors = (0 :> [code |-> "system", balance |-> 0]) @@
                (1 :> [code |-> "init", balance |-> 0])
    /\ status = "running"
    /\ sumOk = 0
    /\ ncalls = 0
    /\ sdk = SdkIdle

\* State::map_address_to_new_id called with any address.
MapAddress(addr) ==
    /\ Len(allocated) < MaxAllocs
    /\ LET m == map_address_to_new_id(address_map, next_id, addr)
       IN  /\ address_map' = m.address_map
           /\ next_id' = m.next_id
           /\ allocated' = Append(allocated, [addr |-> addr, id |-> m.id])
           /\ ret' = Ret("map_address_to_new_id", "Ok", addr, m.id, 0, "none")
    /\ UNCHANGED <<handles, stack, from, gas_limit, gas_used, actors, status, origin,
                   sumOk, ncalls, sdk>>

\* State::resolve_address called with any address.
ResolveAddress(addr) ==
    /\ ret' = Ret("resolve_address", "Ok", addr, resolve_address(address_map, addr), 0, "none")
    /\ UNCHANGED <<handles, stack, from, gas_limit, gas_used, actors, address_map,
                   next_id, status, origin, sumOk, ncalls, allocated, sdk>>

ResolverNext ==
    \/ \E addr \in ResolverAddrs : MapAddress(addr)
    \/ \E addr \in ResolverAddrs : ResolveAddress(addr)

ResolverSpec == ResolverInit /\ [][ResolverNext]_vars

MappedBefore(addr) == \E i \in DOMAIN allocated : allocated[i].addr = addr
MapValues == {address_map[k] : k \in DOMAIN address_map}

\* C11: for every ID address, resolve_address returns the address's own id
\* whatever the map holds and whatever next_id is (ids never allocated and
\* ids >= next_id included), and the resolver state is left unchanged.
C11_IdPassThrough ==
    [][ret'.op = "resolve_address" /\ ret'.addr.protocol = ProtoID =>
          /\ ret'.id = ret'.addr.payload
          /\ UNCHANGED <<address_map, next_id>>]_vars

\* An ID address above next_id that is itself a key of the map, bound to
\* another id, resolved to itself.
C11_Witness ==
    /\ ret.op = "resolve_address"
    /\ ret.addr = new_id(200)
    /\ ret.id = 200
    /\ next_id < 200
    /\ to_bytes(new_id(200)) \in DOMAIN address_map
    /\ address_map[to_bytes(new_id(200))] # 200

\* C12: a non-ID address that was never mapped resolves to None; after
\* map_address_to_new_id(a) returned id, a resolves to id, id is greater
\* than every id allocated before, and every other address resolves as it
\* did.
C12_MapThenResolve ==
    /\ [](\A a \in ResolverAddrs :
            a.protocol # ProtoID /\ ~MappedBefore(a) => resolve_address(address_map, a) = None)
    /\ [][ret'.op = "map_address_to_new_id" /\ Len(allocated') = Len(allocated) + 1
            /\ ret'.addr.protocol # ProtoID =>
            /\ resolve_address(address_map', ret'.addr) = ret'.id
            /\ \A i \in DOMAIN allocated : allocated[i].id < ret'.id
            /\ \A b \in ResolverAddrs \ {ret'.addr} :
                 resolve_address(address_map', b) = resolve_address(address_map, b)
          ]_vars

C12_Witness ==
    /\ ret.op = "map_address_to_new_id"
    /\ ret.addr = Address(ProtoBLS, 1)
    /\ Len(allocated) = 2
    /\ allocated[1].addr = Address(ProtoSecp256k1, 1)
    /\ resolve_address(address_map, ret.addr) = ret.id
    /\ resolve_address(address_map, allocated[1].addr) = allocated[1].id

\* Two calls of map_address_to_new_id in a row on the same address.
MappedTwice ==
    /\ ret.op = "map_address_to_new_id"
    /\ ret'.op = "map_address_to_new_id"
    /\ Len(allocated') = Len(allocated) + 1
    /\ ret'.addr = ret.addr

\* C13: calling map_address_to_new_id twice on the same address yields two
\* distinct ids, the second greater, next_id advances by two, the address
\* then resolves to the second id, and no key is bound to the first id.
C13_NotIdempotent ==
    [][MappedTwice =>
          /\ ret'.id > ret.id
          /\ next_id' = ret.id + 2
          /\ resolve_address(address_map', ret'.addr) = ret'.id
          /\ \A k \in DOMAIN address_map' : address_map'[k] # ret.id]_vars

\* C14: next_id starts at the first non-reserved id and never decreases,
\* the ids returned by map_address_to_new_id are pairwise distinct, and
\* every id returned or stored in the map is below next_id.
C14_MonotoneUniqueIds ==
    /\ [](/\ next_id >= FIRST_NON_SINGLETON_ADDR
          /\ allocated = <<>> => next_id = FIRST_NON_SINGLETON_ADDR
          /\ allocated # <<>> => allocated[1].id = FIRST_NON_SINGLETON_ADDR
          /\ \A i, j \in DOMAIN allocated : i # j => allocated[i].id # allocated[j].id
          /\ \A i \in DOMAIN allocated : allocated[i].id < next_id
          /\ \A v \in MapValues : v < next_id)
    /\ [][next_id' >= next_id]_vars

C14_Witness ==
    /\ Len(allocated) = 3
    /\ next_id = FIRST_NON_SINGLETON_ADDR + 3
    /\ allocated[1].addr = allocated[2].addr
    /\ Cardinality(MapValues) = 2

\* C15: no key of the address map is the encoding of an ID address,
\* whatever addresses map_address_to_new_id is called with.
C15_NoIdKeys ==
    \A k \in DOMAIN address_map : k[1] # ProtoID

C17_FaultPoisons ==
    /\ [](status = "faulted" => LiveHandles = {} /\ stack = <<>>)
    /\ [][/\ status = "running" /\ status' = "faulted" =>
               ret'.op = "panic" /\ ret'.res = "Panic" /\ stack # <<>>
          /\ status = "faulted" =>
               /\ status' = "faulted"
               /\ ret'.res = "Panic"
               /\ ret'.op \in CallManagerOps
               /\ UNCHANGED <<handles, stack, from, gas_used, actors, address_map, next_id>>
         ]_vars

\* finish was called on the poisoned call manager.
C17_Witness ==
    /\ status = "faulted"
    /\ ret.op = "finish panicked"
    /\ ret.res = "Panic"
    /\ handles = <<"None">>

UnderExplicit(i) == \E j \in 1..i : stack[j].explicit
SenderAt(i) == IF UnderExplicit(i) THEN SYSTEM_ACTOR_ID ELSE origin

\* C18: outside send_explicit the effective sender never changes: every
\* kernel is bound to the sender given to CallManager::new, whatever the
\* depth and whatever actor made the send; only a frame under
\* send_explicit is bound to the overriding sender, and `from` changes
\* only when send_explicit starts or returns.
C18_SenderOnlyOverriddenByExplicit ==
    /\ [](status = "running" =>
            /\ \A i \in DOMAIN stack : stack[i].from = SenderAt(i)
            /\ from = SenderAt(Len(stack)))
    /\ [][from' # from => CtorStarts \/ ret'.expl = "Ok"]_vars

\* A send made by actor 101 runs with the top-level sender.
C18_Witness ==
    /\ Len(stack) = 2
    /\ stack[1].to = 101
    /\ ~stack[2].explicit
    /\ stack[2].from = origin
    /\ origin # stack[1].to
    /\ from = origin

RECURSIVE SumBalances(_, _)
SumBalances(acts, S) ==
    IF S = {} THEN 0
    ELSE LET a == CHOOSE x \in S : TRUE
         IN  acts[a].balance + SumBalances(acts, S \ {a})
TotalBalance(acts) == SumBalances(acts, DOMAIN acts)

\* C19: the transfer of send_resolved changes only the recipient's
\* record: its balance grows by the value, every other record (the
\* sender's too) and the set of records are unchanged, the total of all
\* balances grows by the value, and with value zero nothing changes.
C19_TransferTouchesOnlyRecipient ==
    [][SendResolvedCalled /\ ret'.id \in DOMAIN actors =>
          LET to == ret'.id
              credited == IF load_module_ok(actors[to].code) THEN ret'.value ELSE 0
          IN  /\ DOMAIN actors' = DOMAIN actors
              /\ \A a \in DOMAIN actors \ {to} : actors'[a] = actors[a]
              /\ actors'[to].code = actors[to].code
              /\ actors'[to].balance = actors[to].balance + credited
              /\ TotalBalance(actors') = TotalBalance(actors) + credited
              /\ ret'.value = 0 => actors' = actors]_vars

\* Value 1 reached actor 101; the sender's balance is what it was.
C19_Witness ==
    /\ ret.op = "invoke"
    /\ ret.value = 1
    /\ ret.id = 101
    /\ actors[101].balance = 1
    /\ from # 101
    /\ actors[from].balance = 0
    /\ TotalBalance(actors) = 1

\* ------------------------------------------------------------- SDK send
\* The SDK splits the value into 64-bit digits; the model uses words of
\* WordBits bits.
WordBits == 2
WordBase == 2 ^ WordBits
TwoWords == WordBase * WordBase
\* Values of one, two and three digits, zero included.
SdkValues == 0 .. (TwoWords * WordBase - 1)

\* BigInt::iter_u64_digits: the digits of the magnitude, least significant
\* first, without leading zeros: zero has no digits.
RECURSIVE iter_u64_digits(_)
iter_u64_digits(v) ==
    IF v = 0 THEN <<>> ELSE <<v % WordBase>> \o iter_u64_digits(v \div WordBase)

\* The syscalls of send, in order.
SdkSyscalls == <<"ipld::create", "send::send", "ipld::stat", "ipld::read">>

\* sdk::send::send(to, method, params, value); fail_at is the syscall that
\* returns an error (0: none does).
sdk_send(value, fail_at) ==
    LET digits == iter_u64_digits(value)
        done == [pc |-> "done", value |-> value]
    IN  IF digits = <<>>
        THEN \* value_iter.next().unwrap() on None
             done @@ [res |-> "Panic", value_hi |-> 0, value_lo |-> 0, syscalls |-> <<>>]
        ELSE LET lo == digits[1]
                 hi == IF Len(digits) >= 2 THEN digits[2] ELSE 0
             IN  IF Len(digits) >= 3
                 THEN done @@ [res |-> "ErrIllegalArgument", value_hi |-> hi,
                               value_lo |-> lo, syscalls |-> <<>>]
                 ELSE IF fail_at = 0
                 THEN done @@ [res |-> "Ok", value_hi |-> hi, value_lo |-> lo,
                               syscalls |-> SdkSyscalls]
                 ELSE done @@ [res |-> "SyscallError", value_hi |-> hi, value_lo |-> lo,
                               syscalls |-> SubSeq(SdkSyscalls, 1, fail_at)]

SdkInit ==
    /\ sdk \in {[SdkIdle EXCEPT !.value = v] : v \in SdkValues}
    /\ address_map = State_new.address_map
    /\ next_id = State_new.next_id
    /\ allocated = <<>>
    /\ ret = Ret("none", "Ok", NoAddr, None, 0, "none")
    /\ handles = <<"Live">>
    /\ stack = <<>>
    /\ origin = 100
    /\ from = origin
    /\ gas_limit = MaxGas
    /\ gas_used = 0
    /\ actors = (0 :> [code |-> "system", balance |-> 0]) @@
                (1 :> [code |-> "init", balance |-> 0])
    /\ status = "running"
    /\ sumOk = 0
    /\ ncalls = 0

SdkSend(fail_at) ==
    /\ sdk.pc = "idle"
    /\ sdk' = sdk_send(sdk.value, fail_at)
    /\ UNCHANGED <<handles, stack, from, gas_limit, gas_used, actors, address_map,
                   next_id, status, ret, origin, sumOk, ncalls, allocated>>

SdkNext == \E fail_at \in 0..Len(SdkSyscalls) : SdkSend(fail_at)

SdkSpec == SdkInit /\ [][SdkNext]_vars

\* C20: for every value below two words, zero included, send passes
\* value_hi and value_lo with value = value_hi * 2^64 + value_lo; for every
\* value of more than two words it returns ErrIllegalArgument before any
\* syscall.
C20_TwoWordEncoding ==
    sdk.pc = "done" =>
        IF sdk.value < TwoWords
        THEN /\ sdk.res \in {"Ok", "SyscallError"}
             /\ sdk.syscalls # <<>>
             /\ sdk.value = sdk.value_hi * WordBase + sdk.value_lo
        ELSE /\ sdk.res = "ErrIllegalArgument"
             /\ sdk.syscalls = <<>>

====
